---------------------------- MODULE Spec2Model ----------------------------
(***************************************************************************)
(* Model of the Spine -> 3ds Max importer (spine_importer.py and           *)
(* spine_importer_improved.py).                                            *)
(*                                                                         *)
(* Conventions                                                             *)
(*  - A Python string is a sequence of one-character strings, so that      *)
(*    safe_str is modelled by the replacements it performs.                *)
(*  - A Python float is a fixed-point integer counting 1/Den units         *)
(*    (Den = 100): 1.0 is 100, 0.05 is 5.  Products are exact on the       *)
(*    values drawn here.  int() truncates toward zero, as in Python.       *)
(*  - A JSON field is a record [k, v]: k = "absent" (key not in the        *)
(*    dict), "num" (a number, v its fixed-point value), "badstr" (a value  *)
(*    on which float() raises ValueError) or "badtype" (a value on which   *)
(*    float() raises TypeError, such as null or a list).                   *)
(*  - An optional name is <<>> (key absent) or <<name>>.                   *)
(*  - The host scene (pymxs runtime) is the variables scene, keys,         *)
(*    sliderTime and animationRange; an attribute assignment made by the   *)
(*    source takes effect as written.                                      *)
(***************************************************************************)
EXTENDS Integers, Sequences, FiniteSets, TLC

VARIABLES
    variant,         \* "orig" (spine_importer.py) or "improved"
    scale,           \* import_spine's scale argument, fixed point
    atlas,           \* lines of the atlas file, each a sequence of tokens
    files,           \* file names that exist in the texture directory
    bones_data,      \* data["bones"]: sequence of bone records
    data,            \* top-level entries of data that can hold animations, in key order
    pc,              \* position of the importer
    idx,             \* index of the line / record / keyframe being processed
    textures,        \* name -> [filename, rotation]
    current_texture, \* <<>> (None) or <<name>>
    bone_map,        \* name -> index into scene
    scene,           \* bone objects created in the host scene, in creation order
    animations,      \* the animation mapping selected by import_animation
    anim_length,     \* local anim_length of import_animation (frames once converted)
    animationRange,  \* rt.animationRange end frame
    sliderTime,      \* rt.sliderTime
    keys,            \* values applied to bones at frames, in application order
    log,             \* sequence of warnings and errors printed by debug_print
    json_path,       \* import_spine's json_path: "" (none chosen), "missing",
                     \* "unreadable" (exists, json.load raises) or "exists"
    atlas_path,      \* import_spine's atlas_path: "", "missing" or "exists"
    texture_dir,     \* import_spine's texture_dir: "", "missing" or "exists"
    chkAnim,         \* the "import animation" checkbox of the dialog
    slots_data,      \* data["slots"]: sequence of slot records
    meshes,          \* planes created in the host scene, in creation order
    result,          \* what import_spine returned: <<>> (not yet) or <<message>>
    safe_str_arg,    \* the argument of a call of safe_str on its own
    safe_str_ret     \* what that call returned: <<>> (not yet) or <<string>>

vars == <<variant, scale, atlas, files, bones_data, data, pc, idx, textures,
          current_texture, bone_map, scene, animations, anim_length,
          animationRange, sliderTime, keys, log, json_path, atlas_path,
          texture_dir, chkAnim, slots_data, meshes, result, safe_str_arg,
          safe_str_ret>>

(***************************************************************************)
(* Bounds of the model                                                     *)
(***************************************************************************)
MaxBones == 3
MaxKeys == 2

(***************************************************************************)
(* Numbers                                                                 *)
(***************************************************************************)
Den == 100

FMul(a, b) == (a * b) \div Den

\* Python int(): truncation toward zero of a fixed-point value
PyInt(a) == IF a >= 0 THEN a \div Den ELSE -((-a) \div Den)

FloorOf(a) == a \div Den

CeilOf(a) == -((-a) \div Den)

Max2(a, b) == IF b > a THEN b ELSE a

Absent == [k |-> "absent", v |-> 0]
Num(n) == [k |-> "num", v |-> n]
BadStr == [k |-> "badstr", v |-> 0]
BadType == [k |-> "badtype", v |-> 0]

\* float(d.get(key, default)): "ok" with the value, or the exception raised
FloatOf(f, default) ==
    CASE f.k = "absent" -> [ok |-> TRUE, v |-> default, exc |-> "none"]
      [] f.k = "num" -> [ok |-> TRUE, v |-> f.v, exc |-> "none"]
      [] f.k = "badstr" -> [ok |-> FALSE, v |-> 0, exc |-> "ValueError"]
      [] OTHER -> [ok |-> FALSE, v |-> 0, exc |-> "TypeError"]

(***************************************************************************)
(* Strings                                                                 *)
(***************************************************************************)
Whitespace == {" ", "\n", "\t"}

\* MapChars that leaves every newline in place
RECURSIVE MapCharsKeepNewline(_, _)
MapCharsKeepNewline(s, improved) ==
    IF s = <<>> THEN <<>>
    ELSE LET c == Head(s)
             d == IF c = "\\" THEN "/"
                  ELSE IF c = "\"" THEN "'"
                  ELSE c
         IN <<d>> \o MapCharsKeepNewline(Tail(s), improved)

RECURSIVE MapChars(_, _)
MapChars(s, improved) ==
    IF s = <<>> THEN <<>>
    ELSE LET c == Head(s)
             d == IF c = "\\" THEN "/"
                  ELSE IF c = "\"" THEN "'"
                  ELSE IF c = "\n" /\ ~improved THEN " "
                  ELSE c
         IN <<d>> \o MapChars(Tail(s), improved)

RECURSIVE LStrip(_)
LStrip(s) ==
    IF s # <<>> /\ Head(s) \in Whitespace THEN LStrip(Tail(s)) ELSE s

RECURSIVE RStrip(_)
RStrip(s) ==
    IF s # <<>> /\ s[Len(s)] \in Whitespace
    THEN RStrip(SubSeq(s, 1, Len(s) - 1)) ELSE s

\* safe_str of the variant v applied to an optional string (<<>> is None)
safe_str(v, o) ==
    IF o = <<>> THEN <<>>
    ELSE IF v = "improved" THEN MapChars(o[1], TRUE)
    ELSE RStrip(LStrip(MapChars(o[1], FALSE)))

\* the values handed to safe_str: None, a string, an integer
None == [k |-> "none", s |-> <<>>, n |-> 0]
Str(chars) == [k |-> "str", s |-> chars, n |-> 0]
IntVal(i) == [k |-> "int", s |-> <<>>, n |-> i]

RECURSIVE Decimal(_)
Decimal(i) ==
    LET digit == <<"0", "1", "2", "3", "4", "5", "6", "7", "8", "9">>[(i % 10) + 1]
    IN IF i < 10 THEN <<digit>> ELSE Decimal(i \div 10) \o <<digit>>

\* str(value), for a value that is not None
PyStr(value) ==
    IF value.k = "str" THEN value.s
    ELSE IF value.n < 0 THEN <<"-">> \o Decimal(-value.n)
    ELSE Decimal(value.n)

Warn(what) == [level |-> "WARNING", what |-> what]
Err(what) == [level |-> "ERROR", what |-> what]
Info(what) == [level |-> "INFO", what |-> what]

EmptyMap == [n \in {} |-> 0]

MapPut(m, k, i) == [n \in (DOMAIN m) \cup {k} |-> IF n = k THEN i ELSE m[n]]

(***************************************************************************)
(* load_textures                                                           *)
(*                                                                         *)
(* A line of the atlas is a sequence of tokens: ".", ":", " " and words    *)
(* that contain none of them ("tex1", "png", "rotate", "90", "false").     *)
(***************************************************************************)
IndexOf(s, tok) ==
    IF \E i \in 1..Len(s) : s[i] = tok
    THEN CHOOSE i \in 1..Len(s) : s[i] = tok /\ \A j \in 1..(i - 1) : s[j] # tok
    ELSE 0

\* line.strip()
Strip(line) == RStrip(LStrip(line))

\* line.endswith('.png')
EndsWithPng(line) ==
    Len(line) >= 2 /\ line[Len(line)] = "png" /\ line[Len(line) - 1] = "."

\* line.split('.')[0]
Stem(line) ==
    IF IndexOf(line, ".") = 0 THEN line ELSE SubSeq(line, 1, IndexOf(line, ".") - 1)

\* line.startswith('rotate:')
StartsWithRotate(line) == Len(line) >= 2 /\ line[1] = "rotate" /\ line[2] = ":"

\* line.split(':')[1], for a line that holds a ':'
AfterColon(line) ==
    LET rest == SubSeq(line, IndexOf(line, ":") + 1, Len(line))
    IN IF IndexOf(rest, ":") = 0 THEN rest ELSE SubSeq(rest, 1, IndexOf(rest, ":") - 1)

NumberTokens == {"0", "45", "90"}

TokenValue(tok) == CASE tok = "45" -> 45 * Den [] tok = "90" -> 90 * Den [] OTHER -> 0

\* float(text): [ok, v]; float() accepts surrounding whitespace
ParseFloat(text) ==
    LET t == Strip(text)
    IN IF Len(t) = 1 /\ t[1] \in NumberTokens
       THEN [ok |-> TRUE, v |-> TokenValue(t[1])]
       ELSE [ok |-> FALSE, v |-> 0]

\* does an image line whose file exists (re)register its region?
Registers(v, tex, name) == v = "orig" \/ name \notin DOMAIN tex

\* the region set by a rotate line: current_texture, when it is truthy
RotateTarget(cur) == IF cur # <<>> /\ cur[1] # <<>> THEN cur ELSE <<>>

\* TextureStep that registers an image line without looking at the file system
TextureStepNoExists(v, fs, st, raw) ==
    LET line == Strip(raw)
        name == Stem(line)
        target == RotateTarget(st.current_texture)
        val == ParseFloat(AfterColon(line))
    IN IF line = <<>> THEN st
       ELSE IF EndsWithPng(line)
       THEN IF Registers(v, st.textures, name)
            THEN [st EXCEPT !.textures =
                                MapPut(@, name, [filename |-> line, rotation |-> <<>>]),
                            !.current_texture = <<name>>]
            ELSE [st EXCEPT !.log = Append(@, Info("texture_exists"))]
       ELSE IF StartsWithRotate(line) /\ target # <<>>
       THEN IF val.ok
            THEN [st EXCEPT !.textures[target[1]].rotation = <<val.v>>]
            ELSE [st EXCEPT !.log = Append(@, Warn("rotate_unparsed"))]
       ELSE st

\* TextureStep in which a rotate value that does not parse sets the rotation to 0
TextureStepBadRotateZero(v, fs, st, raw) ==
    LET line == Strip(raw)
        name == Stem(line)
        target == RotateTarget(st.current_texture)
        val == ParseFloat(AfterColon(line))
    IN IF line = <<>> THEN st
       ELSE IF EndsWithPng(line)
       THEN IF line \in fs
            THEN IF Registers(v, st.textures, name)
                 THEN [st EXCEPT !.textures =
                                     MapPut(@, name, [filename |-> line, rotation |-> <<>>]),
                                 !.current_texture = <<name>>]
                 ELSE [st EXCEPT !.log = Append(@, Info("texture_exists"))]
            ELSE [st EXCEPT !.log = Append(@, Warn("texture_not_found"))]
       ELSE IF StartsWithRotate(line) /\ target # <<>>
       THEN IF val.ok
            THEN [st EXCEPT !.textures[target[1]].rotation = <<val.v>>]
            ELSE [st EXCEPT !.textures[target[1]].rotation = <<0>>,
                            !.log = Append(@, Warn("rotate_unparsed"))]
       ELSE st

\* one iteration of the loop of load_textures on the raw line;
\* st = [textures, current_texture, log]
TextureStep(v, fs, st, raw) ==
    LET line == Strip(raw)
        name == Stem(line)
        target == RotateTarget(st.current_texture)
        val == ParseFloat(AfterColon(line))
    IN IF line = <<>> THEN st
       ELSE IF EndsWithPng(line)
       THEN IF line \in fs
            THEN IF Registers(v, st.textures, name)
                 THEN [st EXCEPT !.textures =
                                     MapPut(@, name, [filename |-> line, rotation |-> <<>>]),
                                 !.current_texture = <<name>>]
                 ELSE [st EXCEPT !.log = Append(@, Info("texture_exists"))]
            ELSE [st EXCEPT !.log = Append(@, Warn("texture_not_found"))]
       ELSE IF StartsWithRotate(line) /\ target # <<>>
       THEN IF val.ok
            THEN [st EXCEPT !.textures[target[1]].rotation = <<val.v>>]
            ELSE [st EXCEPT !.log = Append(@, Warn("rotate_unparsed"))]
       ELSE st

(***************************************************************************)
(* create_bones                                                            *)
(***************************************************************************)

\* rt.radToDeg: degrees per radian taken as 57.30
RadToDegFactor == 5730

radToDeg(a) == FMul(a, RadToDegFactor)

MinBoneLength == 10

\* the object made by rt.BoneSys.createBone and the assignments of name, width, height
NewBone(name, x, y, length, sc) ==
    LET bone_length == FMul(Max2(MinBoneLength, length), sc)
    IN [name |-> name,
        pos_x |-> FMul(x, sc),
        pos_y |-> FMul(-y, sc),
        length |-> bone_length,
        width |-> FMul(bone_length, 30),
        rotation |-> <<>>,
        parent |-> 0]

\* does a failed float(bone["rotation"]) leave the per-bone try block?
RotationAborts(v, exc) == v = "orig" \/ exc # "ValueError"

\* one iteration of the first loop of create_bones on the record rec;
\* st = [bone_map, scene, log]
Pass1Step(v, sc, st, rec) ==
    LET name == safe_str(v, rec.name)
        x == FloatOf(rec.x, 0)
        y == FloatOf(rec.y, 0)
        len == FloatOf(rec.length, Den)
        rot == FloatOf(rec.rotation, 0)
        failed == [st EXCEPT !.log = Append(@, Err("bone_create_failed"))]
        made == NewBone(name, x.v, y.v, len.v, sc)
        id == Len(st.scene) + 1
    IN IF v = "orig" /\ rec.name = <<>> THEN failed
       ELSE IF v = "improved" /\ name = <<>>
       THEN [st EXCEPT !.log = Append(@, Warn("bone_unnamed"))]
       ELSE IF ~x.ok \/ ~y.ok \/ ~len.ok THEN failed
       ELSE IF rec.rotation.k = "absent"
       THEN [st EXCEPT !.scene = Append(@, made),
                       !.bone_map = MapPut(@, name, id)]
       ELSE IF rot.ok
       THEN [st EXCEPT !.scene = Append(@, [made EXCEPT !.rotation = <<radToDeg(rot.v)>>]),
                       !.bone_map = MapPut(@, name, id)]
       ELSE IF RotationAborts(v, rot.exc)
       THEN [st EXCEPT !.scene = Append(@, made),
                       !.log = Append(@, Err("bone_create_failed"))]
       ELSE [st EXCEPT !.scene = Append(@, made),
                       !.log = Append(@, Warn("bone_rotation_unparsed")),
                       !.bone_map = MapPut(@, name, id)]

\* the condition under which the second loop assigns .parent
LinksParent(m, bone_name, parent_name) ==
    parent_name # <<>> /\ parent_name \in DOMAIN m /\ bone_name \in DOMAIN m

\* the first object of the scene that carries the name n
NodeByName(sc, n) == CHOOSE i \in 1..Len(sc) : sc[i].name = n /\ \A j \in 1..(i - 1) : sc[j].name # n

\* Pass2Step with the parent looked up in the scene by its name instead of in the map
Pass2StepByNodeName(v, st, rec) ==
    LET bone_name == safe_str(v, rec.name)
        parent_name == safe_str(v, rec.parent)
        m == st.bone_map
    IN IF v = "orig" /\ rec.name = <<>>
       THEN [st EXCEPT !.log = Append(@, Err("parent_failed"))]
       ELSE IF LinksParent(m, bone_name, parent_name)
       THEN [st EXCEPT !.scene[m[bone_name]].parent = NodeByName(st.scene, parent_name)]
       ELSE IF v = "improved" /\ parent_name # <<>> /\ parent_name \notin DOMAIN m
       THEN [st EXCEPT !.log = Append(@, Warn("parent_missing"))]
       ELSE st

\* one iteration of the second loop of create_bones on the record rec
Pass2Step(v, st, rec) ==
    LET bone_name == safe_str(v, rec.name)
        parent_name == safe_str(v, rec.parent)
        m == st.bone_map
    IN IF v = "orig" /\ rec.name = <<>>
       THEN [st EXCEPT !.log = Append(@, Err("parent_failed"))]
       ELSE IF LinksParent(m, bone_name, parent_name)
       THEN [st EXCEPT !.scene[m[bone_name]].parent = m[parent_name]]
       ELSE IF v = "improved" /\ parent_name # <<>> /\ parent_name \notin DOMAIN m
       THEN [st EXCEPT !.log = Append(@, Warn("parent_missing"))]
       ELSE st

RECURSIVE Pass1All(_, _, _, _)
Pass1All(v, sc, st, recs) ==
    IF recs = <<>> THEN st
    ELSE Pass1All(v, sc, Pass1Step(v, sc, st, Head(recs)), Tail(recs))

RECURSIVE Pass2All(_, _, _)
Pass2All(v, st, recs) ==
    IF recs = <<>> THEN st
    ELSE Pass2All(v, Pass2Step(v, st, Head(recs)), Tail(recs))

\* create_bones(data, scale) run to its return, from the log lg
create_bones(v, sc, recs, lg) ==
    LET st0 == [bone_map |-> EmptyMap, scene |-> <<>>, log |-> lg]
    IN IF v = "improved" /\ recs = <<>>
       THEN [st0 EXCEPT !.log = Append(@, Warn("no_bones"))]
       ELSE Pass2All(v, Pass1All(v, sc, st0, recs), recs)

(***************************************************************************)
(* import_animation                                                        *)
(*                                                                         *)
(* data is the sequence of top-level entries [key, value] of the JSON      *)
(* document that can hold animations, in key order.  An animation mapping  *)
(* is a sequence of clips; a clip is the sequence of the entries of its    *)
(* "bones" mapping, [bone, translate, rotate, scale], each channel a       *)
(* sequence of frames [time, x, y, angle] (an absent channel is empty).    *)
(***************************************************************************)
FrameRate == 30

PaddingFrames == 10

TranslateFactor == 1

K_animations == <<"a", "n", "i", "m", "a", "t", "i", "o", "n", "s">>

Lower(c) == CASE c = "A" -> "a" [] c = "M" -> "m" [] OTHER -> c

LowerStr(s) == [i \in 1..Len(s) |-> Lower(s[i])]

\* Python's  sub in s
Contains(s, sub) ==
    \E i \in 0..(Len(s) - Len(sub)) : SubSeq(s, i + 1, i + Len(sub)) = sub

IsAnimKey(key) ==
    \/ Contains(LowerStr(key), <<"a", "n", "i", "m">>)
    \/ Contains(LowerStr(key), <<"m", "o", "t", "i", "o", "n">>)

\* data.get(key, {})
DataGet(d, key) ==
    IF \E i \in 1..Len(d) : d[i].key = key
    THEN d[CHOOSE i \in 1..Len(d) : d[i].key = key].value
    ELSE <<>>

\* FallbackScan taking the first key that matches, whatever it holds
RECURSIVE FallbackScanFirstMatch(_, _)
FallbackScanFirstMatch(d, i) ==
    IF i > Len(d) THEN <<>>
    ELSE IF IsAnimKey(d[i].key) THEN d[i].value
    ELSE FallbackScanFirstMatch(d, i + 1)

\* the loop over data.keys() that looks for another animation key, from entry i
RECURSIVE FallbackScan(_, _)
FallbackScan(d, i) ==
    IF i > Len(d) THEN <<>>
    ELSE IF IsAnimKey(d[i].key) /\ d[i].value # <<>> THEN d[i].value
    ELSE FallbackScan(d, i + 1)

\* the animation mapping import_animation works on (empty: none found)
FindAnimations(d) ==
    IF DataGet(d, K_animations) # <<>> THEN DataGet(d, K_animations)
    ELSE FallbackScan(d, 1)

RECURSIVE Flatten(_)
Flatten(ss) == IF ss = <<>> THEN <<>> ELSE Head(ss) \o Flatten(Tail(ss))

\* EntryFrames without the scale channel
EntryFramesNoScale(e) == e.translate \o e.rotate

\* the frames in the order of the loops that compute the animation length
EntryFrames(e) == e.translate \o e.rotate \o e.scale

ClipFrames(clip) == Flatten([i \in 1..Len(clip) |-> EntryFrames(clip[i])])

ScanFrames(anims) == Flatten([i \in 1..Len(anims) |-> ClipFrames(anims[i])])

\* anim_length = max(anim_length, float(frame.get("time", 0))) over the frames;
\* [ok, v]: ok is FALSE when a float() raised
RECURSIVE ScanLength(_, _)
ScanLength(frames, acc) ==
    IF frames = <<>> THEN [ok |-> TRUE, v |-> acc]
    ELSE LET t == FloatOf(Head(frames).time, 0)
         IN IF ~t.ok THEN [ok |-> FALSE, v |-> acc]
            ELSE ScanLength(Tail(frames), Max2(acc, t.v))

\* LengthInFrames rounding up
LengthInFramesCeil(maxt) == CeilOf(maxt * FrameRate) + PaddingFrames

\* LengthInFrames with the frames subtracted from the padding
LengthInFramesNegated(maxt) == PaddingFrames - PyInt(maxt * FrameRate)

\* int(anim_length * 30) + 10
LengthInFrames(maxt) == PyInt(maxt * FrameRate) + PaddingFrames

\* FrameIndex rounding down
FrameIndexFloor(t) == FloorOf(t * FrameRate)

\* int(float(frame.get("time", 0)) * 30)
FrameIndex(t) == PyInt(t * FrameRate)

\* EntryItems that also applies the scale frames, as translate keys
EntryItemsWithScale(v, m, e) ==
    LET n == safe_str(v, <<e.bone>>)
    IN IF n \notin DOMAIN m THEN << [kind |-> "missing", bone |-> 0, frame |-> <<>>] >>
       ELSE [i \in 1..Len(e.translate) |->
                [kind |-> "translate", bone |-> m[n], frame |-> <<e.translate[i]>>]]
            \o [i \in 1..Len(e.rotate) |->
                [kind |-> "rotate", bone |-> m[n], frame |-> <<e.rotate[i]>>]]
            \o [i \in 1..Len(e.scale) |->
                [kind |-> "translate", bone |-> m[n], frame |-> <<e.scale[i]>>]]

\* the work of the import loops, in order: a warning for an entry whose bone is
\* not in the map, else its translate frames, then its rotate frames
EntryItems(v, m, e) ==
    LET n == safe_str(v, <<e.bone>>)
    IN IF n \notin DOMAIN m THEN << [kind |-> "missing", bone |-> 0, frame |-> <<>>] >>
       ELSE [i \in 1..Len(e.translate) |->
                [kind |-> "translate", bone |-> m[n], frame |-> <<e.translate[i]>>]]
            \o [i \in 1..Len(e.rotate) |->
                [kind |-> "rotate", bone |-> m[n], frame |-> <<e.rotate[i]>>]]

\* ClipItems ending at the first entry whose bone is not in the map
ClipItemsUntilMissing(v, m, clip) ==
    LET Missing(i) == safe_str(v, <<clip[i].bone>>) \notin DOMAIN m
        stop == IF \E i \in 1..Len(clip) : Missing(i)
                THEN CHOOSE i \in 1..Len(clip) : Missing(i) /\ \A j \in 1..(i - 1) : ~Missing(j)
                ELSE Len(clip)
    IN Flatten([i \in 1..stop |-> EntryItems(v, m, clip[i])])

ClipItems(v, m, clip) == Flatten([i \in 1..Len(clip) |-> EntryItems(v, m, clip[i])])

BakeItems(v, m, anims) == Flatten([i \in 1..Len(anims) |-> ClipItems(v, m, anims[i])])

\* the conversion of one translate frame: [ok, frame, x, y]
ConvertTranslate(f) ==
    LET t == FloatOf(f.time, 0)
        x == FloatOf(f.x, 0)
        y == FloatOf(f.y, 0)
    IN [ok |-> t.ok /\ x.ok /\ y.ok,
        frame |-> FrameIndex(t.v),
        x |-> FMul(x.v, TranslateFactor),
        y |-> FMul(-y.v, TranslateFactor)]

\* the conversion of one rotate frame: [ok, frame, angle]
ConvertRotate(f) ==
    LET t == FloatOf(f.time, 0)
        a == FloatOf(f.angle, 0)
    IN [ok |-> t.ok /\ a.ok,
        frame |-> FrameIndex(t.v),
        angle |-> radToDeg(a.v)]

(***************************************************************************)
(* create_meshes                                                           *)
(*                                                                         *)
(* A slot is [name, bone, attachment]: name and bone are optional strings, *)
(* attachment is <<>> (absent or empty) or <<[name, width, height]>> with  *)
(* name the tokens of a file name and width, height JSON fields.           *)
(***************************************************************************)
AttachmentFactor == 1

\* slot.get(key, ""): the string under an optional key
GetOrEmpty(o) == IF o = <<>> THEN << <<>> >> ELSE o

\* rt.Plane(length=1, width=1) with its name, parent and position assigned
NewPlane(slot_name, bone, sc) ==
    [name |-> slot_name,
     parent |-> bone,
     pos_x |-> sc[bone].pos_x,
     pos_y |-> sc[bone].pos_y,
     material |-> <<>>,
     width |-> Den,
     length |-> Den]

\* the attachment part of the loop body, on the plane just created (the last of
\* st.meshes); st = [meshes, log]
ApplyAttachment(v, tex, st, att) ==
    LET tex_name == Stem(att.name)
        w == FloatOf(att.width, 0)
        h == FloatOf(att.height, 0)
        n == Len(st.meshes)
        mat == [st EXCEPT !.meshes[n].material = <<tex_name>>]
        sized == [mat EXCEPT !.meshes[n].width = FMul(w.v, AttachmentFactor),
                             !.meshes[n].length = FMul(h.v, AttachmentFactor)]
        widened == [mat EXCEPT !.meshes[n].width = FMul(w.v, AttachmentFactor)]
    IN IF tex_name \notin DOMAIN tex
       THEN [st EXCEPT !.log = Append(@, Warn("slot_texture_missing"))]
       ELSE IF att.width.k = "absent" \/ att.height.k = "absent" THEN mat
       ELSE IF w.ok /\ h.ok THEN sized
       ELSE IF v = "improved" /\ (IF w.ok THEN h.exc ELSE w.exc) = "ValueError"
       THEN [mat EXCEPT !.log = Append(@, Warn("slot_size_unparsed"))]
       ELSE IF v = "orig" /\ w.ok
       THEN [widened EXCEPT !.log = Append(@, Err("mesh_failed"))]
       ELSE [mat EXCEPT !.log = Append(@, Err("mesh_failed"))]

\* MeshStep that drops a slot with an unknown bone without a log entry
MeshStepSilentDrop(v, m, sc, tex, st, slot) ==
    LET slot_name == safe_str(v, GetOrEmpty(slot.name))
        bone_name == safe_str(v, GetOrEmpty(slot.bone))
        made == [st EXCEPT !.meshes = Append(@, NewPlane(slot_name, m[bone_name], sc))]
    IN IF v = "orig" /\ (slot.name = <<>> \/ slot.bone = <<>>)
       THEN [st EXCEPT !.log = Append(@, Err("mesh_failed"))]
       ELSE IF v = "improved" /\ slot_name = <<>>
       THEN [st EXCEPT !.log = Append(@, Warn("slot_unnamed"))]
       ELSE IF bone_name \notin DOMAIN m
       THEN st
       ELSE IF slot.attachment = <<>>
       THEN [made EXCEPT !.log = Append(@, Warn("slot_no_attachment"))]
       ELSE ApplyAttachment(v, tex, made, slot.attachment[1])

\* one iteration of the loop of create_meshes on the slot; st = [meshes, log]
MeshStep(v, m, sc, tex, st, slot) ==
    LET slot_name == safe_str(v, GetOrEmpty(slot.name))
        bone_name == safe_str(v, GetOrEmpty(slot.bone))
        made == [st EXCEPT !.meshes = Append(@, NewPlane(slot_name, m[bone_name], sc))]
    IN IF v = "orig" /\ (slot.name = <<>> \/ slot.bone = <<>>)
       THEN [st EXCEPT !.log = Append(@, Err("mesh_failed"))]
       ELSE IF v = "improved" /\ slot_name = <<>>
       THEN [st EXCEPT !.log = Append(@, Warn("slot_unnamed"))]
       ELSE IF bone_name \notin DOMAIN m
       THEN [st EXCEPT !.log = Append(@, Warn("slot_bone_missing"))]
       ELSE IF slot.attachment = <<>>
       THEN [made EXCEPT !.log = Append(@, Warn("slot_no_attachment"))]
       ELSE ApplyAttachment(v, tex, made, slot.attachment[1])

(***************************************************************************)
(* Actions.  pc follows import_spine: load_textures, create_bones,         *)
(* create_meshes, import_animation, import_done.                           *)
(***************************************************************************)
HostVars == <<animationRange, sliderTime, keys>>
SafeStrVars == <<safe_str_arg, safe_str_ret>>
InputVars == <<variant, scale, atlas, files, bones_data, data, json_path, atlas_path,
               texture_dir, chkAnim, slots_data, SafeStrVars>>
MeshVars == <<meshes, result>>
TextureVars == <<textures, current_texture>>
AnimVars == <<animations, anim_length>>

\* the message import_spine returns
Success(bones, texs) == [kind |-> "success", what |-> "imported", bones |-> bones, textures |-> texs]
Failure(what) == [kind |-> "error", what |-> what, bones |-> 0, textures |-> 0]

\* "on btnImport pressed" of the dialog: a message box and nothing else while a
\* path is not chosen; else import_spine is called with the three paths and the
\* scale (the state of the checkboxes is not passed on)
BtnImport ==
    /\ pc = "btnImport"
    /\ pc' = IF json_path = "" \/ atlas_path = "" \/ texture_dir = ""
             THEN "dialog" ELSE "import_spine"
    /\ UNCHANGED <<InputVars, TextureVars, idx, bone_map, scene, AnimVars, HostVars,
                   log, MeshVars>>

\* ValidateInputs without the check of the texture directory
ValidateInputsNoTextureDir(json, atlas_p, tex_p) ==
    IF json \in {"", "missing"} THEN [ok |-> FALSE, what |-> "json_missing"]
    ELSE IF atlas_p \in {"", "missing"} THEN [ok |-> FALSE, what |-> "atlas_missing"]
    ELSE IF json = "unreadable" THEN [ok |-> FALSE, what |-> "json_unreadable"]
    ELSE [ok |-> TRUE, what |-> "none"]

\* the path checks of import_spine, in their order: [ok, what]
ValidateInputs(json, atlas_p, tex_p) ==
    IF json \in {"", "missing"} THEN [ok |-> FALSE, what |-> "json_missing"]
    ELSE IF atlas_p \in {"", "missing"} THEN [ok |-> FALSE, what |-> "atlas_missing"]
    ELSE IF tex_p \in {"", "missing"} THEN [ok |-> FALSE, what |-> "texture_dir_missing"]
    ELSE IF json = "unreadable" THEN [ok |-> FALSE, what |-> "json_unreadable"]
    ELSE [ok |-> TRUE, what |-> "none"]

\* import_spine: the path checks and json.load; a failure returns the error
\* message at once (the original importer also prints it)
ImportSpineBegin ==
    /\ pc = "import_spine"
    /\ \E r \in {ValidateInputs(json_path, atlas_path, texture_dir)} :
          IF r.ok
          THEN /\ pc' = "load_textures"
               /\ UNCHANGED <<log, result>>
          ELSE /\ pc' = "returned"
               /\ result' = <<Failure(r.what)>>
               /\ log' = IF variant = "orig" THEN Append(log, Err(r.what)) ELSE log
    /\ UNCHANGED <<InputVars, TextureVars, idx, bone_map, scene, AnimVars, HostVars, meshes>>

\* create_meshes: entry; the improved importer returns at once without slots
CreateMeshesBegin ==
    /\ pc = "create_meshes"
    /\ idx' = 1
    /\ IF slots_data = <<>>
       THEN /\ pc' = "reset_timeline"
            /\ log' = IF variant = "improved" THEN Append(log, Warn("no_slots")) ELSE log
       ELSE /\ pc' = "meshes_slot"
            /\ log' = log
    /\ UNCHANGED <<InputVars, TextureVars, bone_map, scene, AnimVars, HostVars, MeshVars>>

\* slot.get(...) raises AttributeError on a slot that is no object, in the body
\* of the loop and again in its except clause, which therefore lets it through
SlotRaises(slot) == ~slot.object

\* create_meshes: one slot; an exception that leaves create_meshes is caught by
\* import_spine, which prints and returns the failure message
CreateMeshesSlot ==
    /\ pc = "meshes_slot"
    /\ IF SlotRaises(slots_data[idx])
       THEN /\ result' = <<Failure("import_failed")>>
            /\ log' = Append(log, Err("import_failed"))
            /\ pc' = "returned"
            /\ UNCHANGED <<meshes, idx>>
       ELSE /\ \E st \in {MeshStep(variant, bone_map, scene, textures,
                                   [meshes |-> meshes, log |-> log], slots_data[idx])} :
                  /\ meshes' = st.meshes
                  /\ log' = st.log
            /\ idx' = IF idx = Len(slots_data) THEN 1 ELSE idx + 1
            /\ pc' = IF idx = Len(slots_data) THEN "reset_timeline" ELSE "meshes_slot"
            /\ result' = result
    /\ UNCHANGED <<InputVars, TextureVars, bone_map, scene, AnimVars, HostVars>>

\* import_spine: the timeline is reset before import_animation is called
ResetTimeline ==
    /\ pc = "reset_timeline"
    /\ sliderTime' = 0
    /\ animationRange' = 100
    /\ pc' = "import_animation"
    /\ UNCHANGED <<InputVars, TextureVars, idx, bone_map, scene, AnimVars, keys, log,
                   MeshVars>>

\* import_spine: after import_animation has returned, the success message with
\* the number of bones and of textures
ImportFinish ==
    /\ pc = "import_done"
    /\ result' = <<Success(Cardinality(DOMAIN bone_map), Cardinality(DOMAIN textures))>>
    /\ pc' = "returned"
    /\ UNCHANGED <<InputVars, TextureVars, idx, bone_map, scene, AnimVars, HostVars,
                   log, meshes>>

\* safe_str(s) called and returned
SafeStrCall ==
    /\ pc = "safe_str"
    /\ safe_str_ret' = <<safe_str(variant, IF safe_str_arg = None THEN <<>>
                                           ELSE <<PyStr(safe_str_arg)>>)>>
    /\ pc' = "safe_str_done"
    /\ UNCHANGED <<variant, scale, atlas, files, bones_data, data, json_path,
                   atlas_path, texture_dir, chkAnim, slots_data, safe_str_arg,
                   TextureVars, idx, bone_map, scene, AnimVars, HostVars, log, MeshVars>>

\* load_textures: the file is read; with no line the loop body never runs
LoadTexturesBegin ==
    /\ pc = "load_textures"
    /\ textures' = EmptyMap
    /\ current_texture' = <<>>
    /\ idx' = 1
    /\ pc' = IF atlas = <<>> THEN "create_bones" ELSE "textures_line"
    /\ UNCHANGED <<InputVars, bone_map, scene, AnimVars, HostVars, log, MeshVars>>

\* load_textures: one line; after the last one the table is returned
LoadTexturesLine ==
    /\ pc = "textures_line"
    /\ \E st \in {TextureStep(variant, files,
                              [textures |-> textures,
                               current_texture |-> current_texture,
                               log |-> log],
                              atlas[idx])} :
          /\ textures' = st.textures
          /\ current_texture' = st.current_texture
          /\ log' = st.log
    /\ idx' = IF idx = Len(atlas) THEN 1 ELSE idx + 1
    /\ pc' = IF idx = Len(atlas) THEN "create_bones" ELSE "textures_line"
    /\ UNCHANGED <<InputVars, bone_map, scene, AnimVars, HostVars, MeshVars>>

\* create_bones: entry; the improved importer returns at once on an empty list
CreateBonesBegin ==
    /\ pc = "create_bones"
    /\ bone_map' = EmptyMap
    /\ idx' = 1
    /\ IF bones_data = <<>>
       THEN /\ pc' = "create_meshes"
            /\ log' = IF variant = "improved" THEN Append(log, Warn("no_bones")) ELSE log
       ELSE /\ pc' = "bones_pass1"
            /\ log' = log
    /\ UNCHANGED <<InputVars, TextureVars, scene, AnimVars, HostVars, MeshVars>>

\* create_bones: first loop, one bone record
CreateBonesPass1 ==
    /\ pc = "bones_pass1"
    /\ \E st \in {Pass1Step(variant, scale,
                            [bone_map |-> bone_map, scene |-> scene, log |-> log],
                            bones_data[idx])} :
          /\ bone_map' = st.bone_map
          /\ scene' = st.scene
          /\ log' = st.log
    /\ idx' = IF idx = Len(bones_data) THEN 1 ELSE idx + 1
    /\ pc' = IF idx = Len(bones_data) THEN "bones_pass2" ELSE "bones_pass1"
    /\ UNCHANGED <<InputVars, TextureVars, AnimVars, HostVars, MeshVars>>

\* create_bones: second loop, one bone record; after the last one the map is returned
CreateBonesPass2 ==
    /\ pc = "bones_pass2"
    /\ \E st \in {Pass2Step(variant,
                            [bone_map |-> bone_map, scene |-> scene, log |-> log],
                            bones_data[idx])} :
          /\ bone_map' = st.bone_map
          /\ scene' = st.scene
          /\ log' = st.log
    /\ idx' = IF idx = Len(bones_data) THEN 1 ELSE idx + 1
    /\ pc' = IF idx = Len(bones_data) THEN "create_meshes" ELSE "bones_pass2"
    /\ UNCHANGED <<InputVars, TextureVars, AnimVars, HostVars, MeshVars>>

\* import_animation: look the animation mapping up; return when there is none
AnimFind ==
    /\ pc = "import_animation"
    /\ animations' = FindAnimations(data)
    /\ IF FindAnimations(data) = <<>>
       THEN /\ pc' = "import_done"
            /\ log' = Append(log, Warn("no_animation"))
       ELSE /\ pc' = "anim_length"
            /\ log' = log
    /\ UNCHANGED <<InputVars, TextureVars, idx, bone_map, scene, anim_length, HostVars, MeshVars>>

\* the reset of the cursor that ends the import loops
FinishedBake(items, i) == i > Len(items)

\* import_animation: the animation length, the playback range and the cursor; a
\* float() that raises leaves through the outer except
AnimLength ==
    /\ pc = "anim_length"
    /\ \E r \in {ScanLength(ScanFrames(animations), 0)} :
       \E items \in {BakeItems(variant, bone_map, animations)} :
          IF r.ok
          THEN /\ anim_length' = LengthInFrames(r.v)
               /\ animationRange' = LengthInFrames(r.v)
               /\ sliderTime' = 0
               /\ idx' = 1
               /\ pc' = IF FinishedBake(items, 1) THEN "import_done" ELSE "anim_bake"
               /\ log' = log
          ELSE /\ pc' = "import_done"
               /\ log' = Append(log, Err("animation_failed"))
               /\ UNCHANGED <<anim_length, animationRange, sliderTime, idx>>
    /\ UNCHANGED <<InputVars, TextureVars, bone_map, scene, animations, keys, MeshVars>>

\* the effect of one item of the import loops on [scene, keys, sliderTime, log]
BakeStep(st, item) ==
    IF item.kind = "missing"
    THEN [st EXCEPT !.log = Append(@, Warn("animation_bone_missing"))]
    ELSE IF item.kind = "translate"
    THEN LET c == ConvertTranslate(item.frame[1])
         IN IF c.ok
            THEN [st EXCEPT !.sliderTime = c.frame,
                            !.scene[item.bone].pos_x = c.x,
                            !.scene[item.bone].pos_y = c.y,
                            !.keys = Append(@, [bone |-> item.bone, chan |-> "translate",
                                                frame |-> c.frame, x |-> c.x, y |-> c.y])]
            ELSE [st EXCEPT !.log = Append(@, Err("translate_key_failed"))]
    ELSE LET c == ConvertRotate(item.frame[1])
         IN IF c.ok
            THEN [st EXCEPT !.sliderTime = c.frame,
                            !.scene[item.bone].rotation = <<c.angle>>,
                            !.keys = Append(@, [bone |-> item.bone, chan |-> "rotate",
                                                frame |-> c.frame, x |-> c.angle, y |-> 0])]
            ELSE [st EXCEPT !.log = Append(@, Err("rotate_key_failed"))]

\* import_animation: one item of the import loops; after the last one the cursor
\* is put back at frame 0
AnimBake ==
    /\ pc = "anim_bake"
    /\ \E items \in {BakeItems(variant, bone_map, animations)} :
       \E st \in {BakeStep([scene |-> scene, keys |-> keys,
                           sliderTime |-> sliderTime, log |-> log], items[idx])} :
          /\ scene' = st.scene
          /\ keys' = st.keys
          /\ log' = st.log
          /\ sliderTime' = IF FinishedBake(items, idx + 1) THEN 0 ELSE st.sliderTime
          /\ pc' = IF FinishedBake(items, idx + 1) THEN "import_done" ELSE "anim_bake"
    /\ idx' = idx + 1
    /\ UNCHANGED <<InputVars, TextureVars, bone_map, AnimVars, animationRange, MeshVars>>

(***************************************************************************)
(* Inputs                                                                  *)
(***************************************************************************)
SeqsUpTo(S, n) == UNION {[1..k -> S] : k \in 0..n}

Root == <<"r", "o", "o", "t">>
Bone1 == <<"b", "o", "n", "e", "1">>
Bone2 == <<"b", "o", "n", "e", "2">>
Slash == <<"/">>
Backslash == <<"\\">>

\* names that safe_str leaves alone (root) and names that it maps to one key
RawNames == {Root, Slash, Backslash}

BoneRecord(n, p, x, y, l, r) ==
    [name |-> n, parent |-> p, x |-> x, y |-> y, length |-> l, rotation |-> r]

\* bone records that differ in their names and parents: a named bone with every
\* parent, a bone without a name (key absent, or empty) with no parent or root
NamedRecords ==
    {BoneRecord(<<n>>, p, Num(0), Num(-Den), Num(Den), Absent) :
        n \in RawNames, p \in {<<>>} \cup {<<r>> : r \in RawNames}}
    \cup
    {BoneRecord(n, p, Num(0), Num(-Den), Num(Den), Absent) :
        n \in {<<>>, << <<>> >>}, p \in {<<>>, <<Root>>}}

\* the numeric fields <<x, length, rotation>> of a record: all convertible, or
\* one of them not
NumericFields ==
    {<<Num(2 * Den), Absent, Absent>>, <<BadStr, Absent, Absent>>,
     <<Num(2 * Den), Num(0), Absent>>, <<Num(2 * Den), Absent, Num(50)>>,
     <<Num(2 * Den), Absent, BadStr>>, <<Num(2 * Den), Absent, BadType>>}

\* bone records that differ in their numeric fields
NumericRecords ==
    {BoneRecord(<<n>>, p, f[1], Num(-Den), f[2], f[3]) :
        n \in {Root, Bone1}, p \in {<<>>, <<Root>>}, f \in NumericFields}

Scales == {50, 100}

\* the bones of create_test_files in test_spine_importer.py
TestBones ==
    << BoneRecord(<<Root>>, <<>>, Num(0), Num(0), Num(Den), Num(0)),
       BoneRecord(<<Bone1>>, <<Root>>, Num(0), Num(-Den), Num(Den), Num(0)),
       BoneRecord(<<Bone2>>, <<Bone1>>, Num(0), Num(-2 * Den), Num(Den), Num(0)) >>

\* the sequences that hold the elements of s, each once
Orderings(s) ==
    {[i \in 1..Len(s) |-> s[f[i]]] :
        f \in {g \in [1..Len(s) -> 1..Len(s)] : \A i, j \in 1..Len(s) : g[i] = g[j] => i = j}}

\* a skeleton whose keys are root, bone1 and "/"
AnimBones ==
    << BoneRecord(<<Root>>, <<>>, Num(0), Num(0), Num(Den), Absent),
       BoneRecord(<<Bone1>>, <<Root>>, Num(0), Num(-Den), Num(Den), Absent),
       BoneRecord(<<Slash>>, <<Bone1>>, Num(0), Num(-2 * Den), Num(Den), Absent) >>

PngA == <<"a", ".", "png">>
PngB == <<"b", ".", "png">>

AtlasLines ==
    {PngA, PngB,
     <<" ", " ", "rotate", ":", " ", "90">>,
     <<"rotate", ":", "45">>,
     <<" ", " ", "rotate", ":", " ", "false">>,
     <<" ", " ", "size", ":", " ", "0">>,
     <<" ">>}

MaxLines == 4

MaxClips == 2

Frame(t, x, y, a) == [time |-> t, x |-> x, y |-> y, angle |-> a]

AnimTimes == {Absent, Num(-5), Num(5), Num(2 * Den), BadStr}

\* the bones of a clip, in document order: a key of the bone map, a name that is
\* not a key, and a name that is a key through safe_str
AnimNameSeq == <<Root, Bone2, Backslash>>

TranslateFrame(t) == Frame(t, Num(10 * Den), Num(3 * Den), Absent)

RotateFrame(t) == Frame(t, Absent, Absent, Num(50))

ScaleFrame(t) == Frame(t, Num(Den), Num(Den), Absent)

\* the keyframes drawn for the channel ch of the bone AnimNameSeq[b].  The bone
\* that is a key of the bone map as written gets every time on its translate
\* channel and keyframes whose value does not convert; the bone that is a key
\* through safe_str and the bone that is not a key get fewer.
ChannelFrames(b, ch) ==
    CASE b = 1 /\ ch = "translate" ->
            {TranslateFrame(t) : t \in AnimTimes} \cup {Frame(Num(5), BadStr, Num(0), Absent)}
      [] b = 1 /\ ch = "rotate" ->
            {RotateFrame(t) : t \in {Absent, Num(-5), Num(2 * Den)}}
                \cup {Frame(Num(2 * Den), Absent, Absent, BadType)}
      [] b = 1 /\ ch = "scale" -> {ScaleFrame(Num(5))}
      [] b = 2 /\ ch = "translate" -> {TranslateFrame(Num(2 * Den))}
      [] b = 2 /\ ch = "scale" -> {ScaleFrame(Num(2 * Den))}
      [] b = 3 /\ ch = "translate" -> {TranslateFrame(Num(5))}
      [] OTHER -> {}

\* a keyframe with its place in the document
KeySet ==
    UNION {[clip : 1..MaxClips, bone : {b}, chan : {ch}, frame : ChannelFrames(b, ch)] :
           b \in 1..Len(AnimNameSeq), ch \in {"translate", "rotate", "scale"}}

ChannelRank(ch) == CASE ch = "translate" -> 1 [] ch = "rotate" -> 2 [] OTHER -> 3

\* the keyframes come in the order of the document
InDocumentOrder(flat) ==
    \A i \in 1..(Len(flat) - 1) :
        LET k == flat[i]
            n == flat[i + 1]
        IN \/ k.clip < n.clip
           \/ k.clip = n.clip /\ k.bone < n.bone
           \/ k.clip = n.clip /\ k.bone = n.bone
                /\ ChannelRank(k.chan) <= ChannelRank(n.chan)

Track(flat, c, b, ch) ==
    LET Here(k) == k.clip = c /\ k.bone = b /\ k.chan = ch
        sel == SelectSeq(flat, Here)
    IN [i \in 1..Len(sel) |-> sel[i].frame]

ClipOf(flat, c) ==
    LET Used(b) == \E i \in 1..Len(flat) : flat[i].clip = c /\ flat[i].bone = b
        used == SelectSeq([i \in 1..Len(AnimNameSeq) |-> i], Used)
    IN [i \in 1..Len(used) |->
           [bone |-> AnimNameSeq[used[i]],
            translate |-> Track(flat, c, used[i], "translate"),
            rotate |-> Track(flat, c, used[i], "rotate"),
            scale |-> Track(flat, c, used[i], "scale")]]

\* the animation mapping that holds the keyframes of flat: its clips are those up
\* to the last one that has a keyframe
Nest(flat) ==
    LET last == IF flat = <<>> THEN 0 ELSE flat[Len(flat)].clip
    IN [c \in 1..last |-> ClipOf(flat, c)]

\* the animations of create_test_files in test_spine_importer.py
TestAnimations ==
    << << [bone |-> Root,
           translate |-> << Frame(Num(0), Num(0), Num(0), Absent),
                            Frame(Num(Den), Num(10 * Den), Num(0), Absent),
                            Frame(Num(2 * Den), Num(0), Num(0), Absent) >>,
           rotate |-> << Frame(Num(0), Absent, Absent, Num(0)),
                         Frame(Num(Den), Absent, Absent, Num(50)),
                         Frame(Num(2 * Den), Absent, Absent, Num(0)) >>,
           scale |-> <<>>],
          [bone |-> Bone1,
           translate |-> <<>>,
           rotate |-> << Frame(Num(0), Absent, Absent, Num(0)),
                         Frame(Num(Den), Absent, Absent, Num(-30)),
                         Frame(Num(2 * Den), Absent, Absent, Num(0)) >>,
           scale |-> <<>>] >> >>

K_Anim == <<"A", "n", "i", "m">>
K_motions == <<"m", "o", "t", "i", "o", "n", "s">>
K_skins == <<"s", "k", "i", "n", "s">>

\* documents whose animations are not under a non-empty "animations" key
OtherData ==
    { <<>>,
      << [key |-> K_skins, value |-> TestAnimations] >>,
      << [key |-> K_animations, value |-> <<>>],
         [key |-> K_Anim, value |-> <<>>],
         [key |-> K_motions, value |-> TestAnimations] >> }

MaxTopKeys == 3

\* a clip with one translate keyframe of root
SmallAnimations ==
    << << [bone |-> Root, translate |-> <<TranslateFrame(Num(5))>>,
           rotate |-> <<>>, scale |-> <<>>] >> >>

\* documents of up to MaxTopKeys top-level keys, each key once, in any order,
\* each holding nothing or an animation mapping
TopLevelData ==
    {d \in SeqsUpTo([key : {K_animations, K_Anim, K_motions, K_skins},
                     value : {<<>>, TestAnimations, SmallAnimations}], MaxTopKeys) :
        \A i, j \in 1..Len(d) : d[i].key = d[j].key => i = j}

MaxSlots == 2

Slot1 == <<"s", "l", "o", "t", "1">>

\* a bone name that no skeleton of the model holds
Ghost == <<"g", "h", "o", "s", "t">>

SlotRecord(n, b, att) == [name |-> n, bone |-> b, attachment |-> att, object |-> TRUE]

\* an entry of "slots" that is not a JSON object, such as null
NotAnObject == [name |-> <<>>, bone |-> <<>>, attachment |-> <<>>, object |-> FALSE]

Attachment(file, w, h) == <<[name |-> file, width |-> w, height |-> h]>>

\* slots: bound to root with a sized attachment, bound to a bone that does not
\* exist, bound to the empty name, without a name, without a bone, bound to
\* root with a width that does not convert, and an entry that is no object
SlotRecords ==
    {SlotRecord(<<Slot1>>, <<Root>>, Attachment(PngA, Num(100 * Den), Num(100 * Den))),
     SlotRecord(<<Slot1>>, <<Ghost>>, <<>>),
     SlotRecord(<<Slot1>>, << <<>> >>, <<>>),
     SlotRecord(<<>>, <<Root>>, <<>>),
     SlotRecord(<<Slot1>>, <<>>, <<>>),
     SlotRecord(<<Slot1>>, <<Root>>, Attachment(PngA, BadStr, Num(80 * Den))),
     NotAnObject}

\* skeletons: none, that of the test file, one bone without a name, and a bone
\* with the empty name before root
ImportBones ==
    {<<>>,
     TestBones,
     <<BoneRecord(<<>>, <<>>, Num(0), Num(0), Num(Den), Absent)>>,
     <<BoneRecord(<< <<>> >>, <<>>, Num(0), Num(0), Num(Den), Absent),
       BoneRecord(<<Root>>, << <<>> >>, Num(0), Num(-Den), Num(Den), Absent)>>}

\* the shape of the atlas of create_test_files: two images, each followed by a
\* "rotate: false" line
TestAtlas ==
    <<PngA, <<" ", " ", "rotate", ":", " ", "false">>,
      PngB, <<" ", " ", "rotate", ":", " ", "false">> >>

\* an atlas with the files that exist in the texture directory
ImportAtlases ==
    {[atlas |-> <<>>, files |-> {}],
     [atlas |-> TestAtlas, files |-> {PngA}]}

\* documents: no animation, the animations of the test file, and a clip with a
\* keyframe time that is not a number
ImportData ==
    {<<>>,
     << [key |-> K_animations, value |-> TestAnimations] >>,
     << [key |-> K_animations,
         value |-> << << [bone |-> Root,
                          translate |-> <<TranslateFrame(Num(Den)), TranslateFrame(BadStr)>>,
                          rotate |-> <<>>, scale |-> <<>>] >> >>] >>}

(***************************************************************************)
(* Initial states and specifications                                       *)
(***************************************************************************)
HostInit ==
    /\ animationRange = 100
    /\ sliderTime = 0
    /\ keys = <<>>

\* safe_str is not called on its own
NoSafeStrCall ==
    /\ safe_str_arg = None
    /\ safe_str_ret = <<>>

\* a call of import_spine on paths that exist, for a document without slots
PlainCall ==
    /\ json_path = "exists"
    /\ atlas_path = "exists"
    /\ texture_dir = "exists"
    /\ chkAnim = TRUE
    /\ slots_data = <<>>
    /\ meshes = <<>>
    /\ result = <<>>
    /\ NoSafeStrCall

\* import_spine at the call of load_textures
InitTextures ==
    /\ variant \in {"orig", "improved"}
    /\ scale = Den
    /\ atlas \in SeqsUpTo(AtlasLines, MaxLines)
    /\ files \in SUBSET {PngA, PngB}
    /\ bones_data = <<>>
    /\ data = <<>>
    /\ pc = "load_textures"
    /\ idx = 1
    /\ textures = EmptyMap
    /\ current_texture = <<>>
    /\ bone_map = EmptyMap
    /\ scene = <<>>
    /\ animations = <<>>
    /\ anim_length = 0
    /\ HostInit
    /\ PlainCall
    /\ log = <<>>

\* import_spine at the call of create_bones, after an empty atlas
InitBones ==
    /\ variant \in {"orig", "improved"}
    /\ \/ scale = Den /\ bones_data \in SeqsUpTo(NamedRecords, MaxBones)
       \/ scale \in Scales /\ bones_data \in SeqsUpTo(NumericRecords, MaxBones - 1)
       \/ scale = Den /\ bones_data \in Orderings(TestBones)
    /\ atlas = <<>>
    /\ files = {}
    /\ data = <<>>
    /\ pc = "create_bones"
    /\ idx = 1
    /\ textures = EmptyMap
    /\ current_texture = <<>>
    /\ bone_map = EmptyMap
    /\ scene = <<>>
    /\ animations = <<>>
    /\ anim_length = 0
    /\ HostInit
    /\ PlainCall
    /\ log = <<>>

\* what create_bones leaves for the skeletons the animations are imported on
BuiltSkeleton ==
    [v \in {"orig", "improved"} |->
        [b \in {AnimBones, TestBones} |-> create_bones(v, Den, b, <<>>)]]

\* import_spine at the call of import_animation, after an empty atlas, the
\* skeleton AnimBones (or that of the test file) and no slots
InitAnim ==
    /\ variant \in {"orig", "improved"}
    /\ scale = Den
    /\ atlas = <<>>
    /\ files = {}
    /\ \/ /\ bones_data = AnimBones
          /\ \E flat \in SeqsUpTo(KeySet, MaxKeys) :
                /\ InDocumentOrder(flat)
                /\ data = << [key |-> K_animations, value |-> Nest(flat)] >>
       \/ /\ bones_data = TestBones
          /\ data \in OtherData \cup TopLevelData
    /\ pc = "import_animation"
    /\ idx = 1
    /\ textures = EmptyMap
    /\ current_texture = <<>>
    /\ LET st == BuiltSkeleton[variant][bones_data]
       IN /\ bone_map = st.bone_map
          /\ scene = st.scene
          /\ log = st.log
    /\ animations = <<>>
    /\ anim_length = 0
    /\ HostInit
    /\ PlainCall

\* the playback range and the cursor of the scene the import starts in
SceneTimelines == {<<100, 0>>, <<250, 40>>}

\* the dialog with its paths and options set, when the import button is pressed
\* (or, for the paths that do not all exist, a script that calls import_spine
\* while the checkbox is as the dialog creates it, checked)
InitImport ==
    /\ variant \in {"orig", "improved"}
    /\ scale = Den
    /\ chkAnim \in BOOLEAN
    /\ \/ /\ json_path \in {"", "missing", "unreadable", "exists"}
          /\ atlas_path \in {"", "missing", "exists"}
          /\ texture_dir \in {"", "missing", "exists"}
          /\ atlas = TestAtlas
          /\ files = {PngA, PngB}
          /\ bones_data = TestBones
          /\ slots_data \in SeqsUpTo(SlotRecords, 1)
          /\ data = << [key |-> K_animations, value |-> TestAnimations] >>
          /\ pc \in IF chkAnim THEN {"btnImport", "import_spine"} ELSE {"btnImport"}
       \/ /\ json_path = "exists"
          /\ atlas_path = "exists"
          /\ texture_dir = "exists"
          /\ \E a \in ImportAtlases : atlas = a.atlas /\ files = a.files
          /\ bones_data \in ImportBones
          /\ slots_data \in SeqsUpTo(SlotRecords, MaxSlots)
          /\ data \in ImportData
          /\ pc = "btnImport"
    /\ idx = 1
    /\ textures = EmptyMap
    /\ current_texture = <<>>
    /\ bone_map = EmptyMap
    /\ scene = <<>>
    /\ animations = <<>>
    /\ anim_length = 0
    /\ \E t \in SceneTimelines : animationRange = t[1] /\ sliderTime = t[2]
    /\ keys = <<>>
    /\ log = <<>>
    /\ meshes = <<>>
    /\ result = <<>>
    /\ NoSafeStrCall

MaxLen == 3

\* characters of the arguments: a letter, the three that safe_str replaces, and
\* two kinds of whitespace
Chars == {"a", "\\", "\"", "\n", " ", "\t"}

SafeStrArgs ==
    {None} \cup {Str(c) : c \in SeqsUpTo(Chars, MaxLen)} \cup {IntVal(i) : i \in {0, 123, -45}}

\* a call safe_str(s) on its own, as test_safe_str makes it
InitSafeStr ==
    /\ variant \in {"orig", "improved"}
    /\ scale = Den
    /\ atlas = <<>>
    /\ files = {}
    /\ bones_data = <<>>
    /\ data = <<>>
    /\ pc = "safe_str"
    /\ idx = 1
    /\ textures = EmptyMap
    /\ current_texture = <<>>
    /\ bone_map = EmptyMap
    /\ scene = <<>>
    /\ animations = <<>>
    /\ anim_length = 0
    /\ HostInit
    /\ json_path = "exists"
    /\ atlas_path = "exists"
    /\ texture_dir = "exists"
    /\ chkAnim = TRUE
    /\ slots_data = <<>>
    /\ meshes = <<>>
    /\ result = <<>>
    /\ log = <<>>
    /\ safe_str_arg \in SafeStrArgs
    /\ safe_str_ret = <<>>

NextSafeStr == SafeStrCall

SpecSafeStr == InitSafeStr /\ [][NextSafeStr]_vars

NextTextures == LoadTexturesBegin \/ LoadTexturesLine

NextBones == CreateBonesBegin \/ CreateBonesPass1 \/ CreateBonesPass2

NextAnim == AnimFind \/ AnimLength \/ AnimBake \/ ImportFinish

SpecTextures == InitTextures /\ [][NextTextures]_vars

SpecBones == InitBones /\ [][NextBones]_vars

SpecAnim == InitAnim /\ [][NextAnim]_vars

NextImport ==
    \/ BtnImport
    \/ ImportSpineBegin
    \/ LoadTexturesBegin
    \/ LoadTexturesLine
    \/ CreateBonesBegin
    \/ CreateBonesPass1
    \/ CreateBonesPass2
    \/ CreateMeshesBegin
    \/ CreateMeshesSlot
    \/ ResetTimeline
    \/ AnimFind
    \/ AnimLength
    \/ AnimBake
    \/ ImportFinish

SpecImport == InitImport /\ [][NextImport]_vars

(***************************************************************************)
(* Properties of create_bones (checked under SpecBones)                    *)
(***************************************************************************)
AfterCreateBones ==
    pc \in {"create_meshes", "import_animation", "anim_length", "anim_bake", "import_done"}

\* the bone objects that are values of the bone map
MapValues == {bone_map[n] : n \in DOMAIN bone_map}

NormName(rec) == safe_str(variant, rec.name)

NormParent(rec) == safe_str(variant, rec.parent)

\* following parent links from the object i (0: none) ends within fuel steps
RECURSIVE EndsAtRoot(_, _)
EndsAtRoot(i, fuel) ==
    IF i = 0 THEN TRUE
    ELSE IF fuel = 0 THEN FALSE
    ELSE EndsAtRoot(scene[i].parent, fuel - 1)

ResolvedAcyclic == \A i \in 1..Len(scene) : EndsAtRoot(i, Len(scene))

\* the parent relation as the document writes it: <<name, parent>> of every
\* record that has both
DeclaredEdges(recs) ==
    {<<recs[i].name[1], recs[i].parent[1]>> :
        i \in {j \in 1..Len(recs) : recs[j].name # <<>> /\ recs[j].parent # <<>>}}

RECURSIVE DeclaredReach(_, _, _, _)
DeclaredReach(E, a, b, fuel) ==
    /\ fuel > 0
    /\ \E e \in E : e[1] = a /\ (e[2] = b \/ DeclaredReach(E, e[2], b, fuel - 1))

DeclaredAcyclic(recs) ==
    LET E == DeclaredEdges(recs)
    IN \A e \in E : ~DeclaredReach(E, e[1], e[1], Cardinality(E))

\* C1: every bone of the bone map has no parent or a parent that is a value of
\* the same map, and every parent link in the scene comes from a record whose
\* parent name is a key of the map: a parent name that is no key makes no link.
C1_NoDanglingParent ==
    /\ \A i \in MapValues : scene[i].parent = 0 \/ scene[i].parent \in MapValues
    /\ \A i \in 1..Len(scene) :
          scene[i].parent # 0 =>
              \E j \in 1..Len(bones_data) :
                  /\ NormName(bones_data[j]) = scene[i].name
                  /\ NormParent(bones_data[j]) \in DOMAIN bone_map
                  /\ bone_map[NormParent(bones_data[j])] = scene[i].parent

\* create_bones has returned a map in which one bone got its parent although an
\* earlier bone of that name exists in the scene, and another bone, which names
\* a parent that is no key, stayed parentless
C1_Witness ==
    /\ pc = "create_meshes"
    /\ \E i \in MapValues :
          /\ scene[i].parent # 0
          /\ \E k \in 1..Len(scene) : k # scene[i].parent /\ scene[k].name = scene[scene[i].parent].name
    /\ \E j \in 1..Len(bones_data) :
          /\ NormParent(bones_data[j]) # <<>>
          /\ NormParent(bones_data[j]) \notin DOMAIN bone_map
          /\ NormName(bones_data[j]) \in DOMAIN bone_map
          /\ scene[bone_map[NormName(bones_data[j])]].parent = 0

\* C2: when the declared parent relation has a cycle, the assignment that would
\* close it is rejected, so that after create_bones every bone reaches a
\* parentless root by following parent links.
C2_CycleRejected == AfterCreateBones => ResolvedAcyclic

\* C3: a document whose parent relation, by the names as written, has no cycle
\* resolves to an acyclic parent graph.
C3_AcyclicPreserved ==
    (AfterCreateBones /\ DeclaredAcyclic(bones_data)) => ResolvedAcyclic

\* C4: every record whose parent name is a key of the final bone map has the
\* bone of its name linked to that parent, wherever the parent record stands.
C4_ParentOfEveryRecord ==
    AfterCreateBones =>
        \A j \in 1..Len(bones_data) :
            (bones_data[j].parent # <<>>
                /\ NormParent(bones_data[j]) \in DOMAIN bone_map
                /\ NormName(bones_data[j]) \in DOMAIN bone_map)
            => scene[bone_map[NormName(bones_data[j])]].parent
                   = bone_map[NormParent(bones_data[j])]

(***************************************************************************)
(* Properties of load_textures (checked under SpecTextures)                *)
(***************************************************************************)
IsImageLine(i) == EndsWithPng(Strip(atlas[i]))

\* the image line i names a region that an earlier image line has loaded
Redeclares(i) ==
    /\ IsImageLine(i)
    /\ Strip(atlas[i]) \in files
    /\ \E j \in 1..(i - 1) :
          /\ IsImageLine(j)
          /\ Strip(atlas[j]) \in files
          /\ Stem(Strip(atlas[j])) = Stem(Strip(atlas[i]))

\* the line i is a re-declaration or one of the lines between it and the next
\* image line
InRedeclaration(i) ==
    \E j \in 1..i :
        /\ Redeclares(j)
        /\ \A k \in (j + 1)..i : ~IsImageLine(k)

\* C5: in the improved importer, a re-declared region name is a no-op: the
\* re-declaring image line and the attribute lines after it, up to the next
\* image line, leave the keys and the field values of the texture table as
\* they were.
C5_RedeclarationNoOp ==
    [][(variant = "improved" /\ pc = "textures_line" /\ InRedeclaration(idx))
            => textures' = textures]_vars

(***************************************************************************)
(* Properties of import_animation (checked under SpecAnim)                 *)
(***************************************************************************)
SeqRange(q) == {q[i] : i \in 1..Len(q)}

\* every frame of every channel of every bone of every clip
AllFrames(anims) ==
    UNION {UNION {SeqRange(anims[c][e].translate) \cup SeqRange(anims[c][e].rotate)
                      \cup SeqRange(anims[c][e].scale) : e \in 1..Len(anims[c])} :
           c \in 1..Len(anims)}

IsNumeric(f) == f.k \in {"absent", "num"}

\* the time of a frame in seconds (fixed point); a frame without "time" is at 0
TimeOf(f) == IF f.time.k = "num" THEN f.time.v ELSE 0

Times(anims) == {TimeOf(f) : f \in AllFrames(anims)}

SetMax(S) == CHOOSE m \in S : \A x \in S : x <= m

\* import_animation has found animations whose times are all numbers, and is
\* past the computation of the animation length
LengthComputed ==
    /\ pc \in {"anim_bake", "import_done"}
    /\ animations # <<>>
    /\ \A f \in AllFrames(animations) : IsNumeric(f.time)

\* C6 as stated: the playback range ends at floor(maxTime * 30) + 10, maxTime
\* the maximum time over every keyframe.
C6_DurationOfMaxTime ==
    (LengthComputed /\ AllFrames(animations) # {}) =>
        animationRange = FloorOf(SetMax(Times(animations)) * 30) + 10

\* C6 (amended): the playback range ends at floor(maxTime * 30) + 10, maxTime the
\* maximum over 0 and the time of every keyframe of every channel (translate,
\* rotate, scale) of every bone (in the bone map or not) of every clip, in
\* whatever order they appear; keyframes at 0, 1 and 2 seconds give 70.
C6_DurationOfMaxTimeOrZero ==
    LengthComputed =>
        /\ animationRange = FloorOf(SetMax({0} \cup Times(animations)) * 30) + 10
        /\ Times(animations) = {0, Den, 2 * Den} => animationRange = 70

\* the largest time is that of a scale keyframe of a bone that is not in the bone
\* map, in the first clip, and the second clip holds only earlier keyframes
C6_Witness ==
    /\ LengthComputed
    /\ animationRange = 70
    /\ Len(animations) = 2
    /\ \E e \in 1..Len(animations[1]) :
          /\ safe_str(variant, <<animations[1][e].bone>>) \notin DOMAIN bone_map
          /\ \E i \in 1..Len(animations[1][e].scale) :
                TimeOf(animations[1][e].scale[i]) = 2 * Den
    /\ AllFrames(<<animations[2]>>) # {}
    /\ \A f \in AllFrames(<<animations[2]>>) : TimeOf(f) < 2 * Den

\* C7 as stated: the duration is ceil(maxKeyframeTime * frameRate) + 10 (the
\* maximum taken over 0 and the keyframe times, as the importer tracks it).
C7_CeilDuration ==
    LengthComputed =>
        animationRange = CeilOf(SetMax({0} \cup Times(animations)) * 30) + 10

\* C7 (amended): the duration is floor(m * frameRate) + 10 with m the maximum
\* over 0 and the keyframe times: the value of the ceil formula when m * 30 is a
\* whole number of frames, and one frame less when it is not.
C7_FloorNotCeil ==
    LengthComputed =>
        LET m == SetMax({0} \cup Times(animations)) * 30
        IN animationRange = CeilOf(m) + 10 - (IF m % Den = 0 THEN 0 ELSE 1)

\* the largest keyframe time is not a whole number of frames
C7_Witness ==
    /\ LengthComputed
    /\ (SetMax({0} \cup Times(animations)) * 30) % Den # 0
    /\ animationRange = 11

RemoveAt(q, i) == SubSeq(q, 1, i - 1) \o SubSeq(q, i + 1, Len(q))

\* the places <<clip, entry, channel, index>> of the frames of anims
FramePlaces(anims) ==
    UNION {UNION {UNION {{<<c, e, ch, i>> : i \in 1..Len(anims[c][e][ch])} :
                         ch \in {"translate", "rotate", "scale"}} :
                  e \in 1..Len(anims[c])} :
           c \in 1..Len(anims)}

FrameAt(anims, p) == anims[p[1]][p[2]][p[3]][p[4]]

\* anims without the frame at the place p
WithoutFrame(anims, p) ==
    [anims EXCEPT ![p[1]][p[2]][p[3]] = RemoveAt(@, p[4])]

\* the animation length the importer computes for anims
DurationOf(anims) == LengthInFrames(ScanLength(ScanFrames(anims), 0).v)

\* the frame at p is later than every other frame of anims
LatestFrame(anims, p) ==
    \A q \in FramePlaces(anims) :
        q # p => TimeOf(FrameAt(anims, q)) < TimeOf(FrameAt(anims, p))

\* C8: the duration is monotonic: the range set for a document is not below the
\* duration of the document without one keyframe, when that keyframe is later
\* than every other one.
C8_DurationMonotonic ==
    LengthComputed =>
        \A p \in FramePlaces(animations) :
            LatestFrame(animations, p) =>
                DurationOf(WithoutFrame(animations, p)) <= animationRange

\* a document of two keyframes whose later one lengthens the animation
C8_Witness ==
    /\ LengthComputed
    /\ Cardinality(FramePlaces(animations)) >= 2
    /\ \E p \in FramePlaces(animations) :
          /\ LatestFrame(animations, p)
          /\ DurationOf(WithoutFrame(animations, p)) < animationRange

\* the item the import loops work on
CurrentItem == BakeItems(variant, bone_map, animations)[idx]

Convertible(item) ==
    /\ item.kind \in {"translate", "rotate"}
    /\ IsNumeric(item.frame[1].time)
    /\ item.kind = "translate" => IsNumeric(item.frame[1].x) /\ IsNumeric(item.frame[1].y)
    /\ item.kind = "rotate" => IsNumeric(item.frame[1].angle)

ValueOf(f) == IF f.k = "num" THEN f.v ELSE 0

\* n is t * 30 frames rounded toward zero
TruncatedFrames(n, t) ==
    LET a == IF t < 0 THEN -t ELSE t
        m == IF n < 0 THEN -n ELSE n
    IN /\ m * Den <= a * 30
       /\ a * 30 < (m + 1) * Den
       /\ n * t >= 0

\* the key applied by the step is that of the current item alone: the bone and
\* channel of the item, the frame index Index(n, t) and, for a translate key,
\* x * 0.01 and -y * 0.01
KeyOfCurrentItem(Index(_, _)) ==
    \E item \in {CurrentItem} :
        LET f == item.frame[1]
            k == keys'[Len(keys')]
        IN /\ keys' = Append(keys, k)
           /\ k.bone = item.bone
           /\ k.chan = item.kind
           /\ Index(k.frame, TimeOf(f))
           /\ item.kind = "translate" =>
                 /\ k.x * Den = ValueOf(f.x)
                 /\ k.y * Den = -ValueOf(f.y)
                 /\ scene'[k.bone].pos_x = k.x
                 /\ scene'[k.bone].pos_y = k.y

FlooredFrames(n, t) == n = FloorOf(t * 30)

\* C9 as stated: every translate or rotate keyframe of a bone of the bone map is
\* converted on its own, at frameIndex = floor(timeSeconds * 30).
C9_KeyAtFloorFrame ==
    [][(pc = "anim_bake" /\ Convertible(CurrentItem)) => KeyOfCurrentItem(FlooredFrames)]_vars

\* C9 (amended): every translate or rotate keyframe of a bone of the bone map is
\* converted on its own, at frameIndex = timeSeconds * 30 rounded toward zero
\* (the floor for times >= 0), a translate key with value (x * 0.01, -y * 0.01).
C9_KeyAtTruncatedFrame ==
    [][(pc = "anim_bake" /\ Convertible(CurrentItem)) => KeyOfCurrentItem(TruncatedFrames)]_vars

\* a translate key of a keyframe at -0.05 s was applied at frame -1, where the
\* floor is -2, after a key at a later frame
C9_Witness ==
    \E i \in 1..Len(keys) :
        /\ keys[i].chan = "translate"
        /\ keys[i].frame = -1
        /\ keys[i].x = 10
        /\ keys[i].y = -3
        /\ \E j \in 1..(i - 1) : keys[j].frame > 0

\* the keyframes of the bones of the map that convert
ConvertibleItems ==
    LET items == BakeItems(variant, bone_map, animations)
    IN {i \in 1..Len(items) : Convertible(items[i])}

\* C10: a keyframe whose time or value is not numeric is dropped, every other
\* keyframe is still baked and the duration is still set (from the keyframes
\* that have a time).
C10_BadKeyframeDropped ==
    (pc = "import_done" /\ animations # <<>>) =>
        /\ Len(keys) = Cardinality(ConvertibleItems)
        /\ animationRange =
              FloorOf(SetMax({0} \cup {TimeOf(f) : f \in
                  {g \in AllFrames(animations) : IsNumeric(g.time)}}) * 30) + 10

(***************************************************************************)
(* C11: animation entries of bones that are not in the bone map            *)
(***************************************************************************)
\* the entries <<clip, entry>> of animations whose bone is not a key of bone_map
MissingEntries ==
    {p \in UNION {{<<c, e>> : e \in 1..Len(animations[c])} : c \in 1..Len(animations)} :
        safe_str(variant, <<animations[p[1]][p[2]].bone>>) \notin DOMAIN bone_map}

\* the translate and rotate keyframes of the bones of the map that convert
KeyedPlaces ==
    {p \in FramePlaces(animations) :
        /\ p[3] \in {"translate", "rotate"}
        /\ <<p[1], p[2]>> \notin MissingEntries
        /\ Convertible([kind |-> p[3], frame |-> <<FrameAt(animations, p)>>])}

Count(q, x) == Cardinality({i \in 1..Len(q) : q[i] = x})

\* the import loops were entered and have ended
LoopsDone == pc = "import_done" /\ idx > 1

\* C11: in the import loops an entry whose bone is not in the bone map is skipped
\* with one warning, no bone and no key is changed for it, and the loops go on:
\* when they end, every such entry has its warning and every convertible
\* keyframe of every bone of the map, in every clip, has been keyed.
C11_MissingBoneSkipped ==
    /\ [](LoopsDone =>
            /\ Count(log, Warn("animation_bone_missing")) = Cardinality(MissingEntries)
            /\ Len(keys) = Cardinality(KeyedPlaces))
    /\ [][(pc = "anim_bake" /\ CurrentItem.kind = "missing") =>
            /\ scene' = scene
            /\ keys' = keys
            /\ log' = Append(log, Warn("animation_bone_missing"))]_vars

\* a clip names a bone that is not in the map, and a keyframe of an entry after
\* it (in the same clip or a later one) has been keyed
C11_Witness ==
    /\ LoopsDone
    /\ Len(keys) >= 1
    /\ \E m \in MissingEntries, p \in KeyedPlaces :
          p[1] > m[1] \/ (p[1] = m[1] /\ p[2] > m[2])

(***************************************************************************)
(* C12: the animation source when "animations" is absent or empty          *)
(***************************************************************************)
\* the top-level keys of the documents whose name contains "anim" or "motion",
\* whatever the case of the letters
MatchingKeys == {K_animations, K_Anim, K_motions}

\* the entries of data that can serve as the fallback source
FallbackEntries ==
    {i \in 1..Len(data) : data[i].key \in MatchingKeys /\ data[i].value # <<>>}

AfterAnimFind == pc \in {"anim_length", "anim_bake", "import_done", "returned"}

\* C12: when "animations" is absent or empty, the animation source is the value
\* of the first top-level key, in document order, whose name contains "anim" or
\* "motion" (case-insensitively) and whose value is not empty; without such a
\* key nothing is keyed, one warning is logged and import_spine still returns
\* its success message.
C12_FallbackSource ==
    (AfterAnimFind /\ DataGet(data, K_animations) = <<>>) =>
        IF FallbackEntries # {}
        THEN animations = data[CHOOSE i \in FallbackEntries :
                                   \A j \in FallbackEntries : i <= j].value
        ELSE /\ animations = <<>>
             /\ keys = <<>>
             /\ animationRange = 100
             /\ Count(log, Warn("no_animation")) = 1
             /\ pc \in {"import_done", "returned"}
             /\ pc = "returned" => result # <<>> /\ result[1].kind = "success"

\* "animations" is empty, the first matching key holds nothing, a later one holds
\* the animations that were imported
C12_Witness ==
    /\ pc = "returned"
    /\ DataGet(data, K_animations) = <<>>
    /\ \E i, j \in 1..Len(data) :
          /\ i < j
          /\ data[i].key = K_Anim /\ data[i].value = <<>>
          /\ j \in FallbackEntries
          /\ animations = data[j].value
    /\ keys # <<>>

\* no key of the document can serve: import_spine has returned after a warning
C12_WitnessNoSource ==
    /\ pc = "returned"
    /\ data # <<>>
    /\ FallbackEntries = {}
    /\ DataGet(data, K_animations) = <<>>

(***************************************************************************)
(* C13: inputs that are missing or cannot be read                          *)
(***************************************************************************)
\* the skeleton document, the atlas or the texture directory is missing, or the
\* document cannot be read
FatalInput ==
    json_path # "exists" \/ atlas_path # "exists" \/ texture_dir # "exists"

ReturnedError == result # <<>> /\ result[1].kind = "error"

\* C13: with a missing skeleton document, atlas or texture directory (or a
\* document that cannot be read) import_spine returns an error at once and does
\* no partial work: no texture, bone or mesh exists, no animation is processed,
\* and no step touches the playback range or the cursor.
C13_FatalInputNoPartialWork ==
    /\ [](FatalInput =>
            /\ pc \in {"btnImport", "dialog", "import_spine", "returned"}
            /\ pc = "returned" => ReturnedError
            /\ textures = EmptyMap /\ bone_map = EmptyMap /\ scene = <<>>
            /\ meshes = <<>> /\ animations = <<>> /\ keys = <<>>)
    /\ [][FatalInput => UNCHANGED <<animationRange, sliderTime>>]_vars

\* import_spine has returned an error for a texture directory that is missing,
\* in a scene whose playback range was 250 and still is
C13_Witness ==
    /\ pc = "returned"
    /\ ReturnedError
    /\ json_path = "exists" /\ atlas_path = "exists" /\ texture_dir = "missing"
    /\ animationRange = 250 /\ sliderTime = 40

(***************************************************************************)
(* C14: when import_spine reports success                                  *)
(***************************************************************************)
ReturnedSuccess == result # <<>> /\ result[1].kind = "success"

\* C14: import_spine reports success if and only if the skeleton document was
\* parsed and at least one bone was created: a document that yields no bone is
\* not reported as a success, and failures of textures or animations do not turn
\* a result with a bone into a failure.
C14_SuccessIffBoneCreated ==
    pc = "returned" =>
        (ReturnedSuccess <=> (json_path = "exists" /\ bone_map # EmptyMap))

(***************************************************************************)
(* C15: bones with an empty or missing name                                *)
(***************************************************************************)
\* C15: in both variants a bone record whose name is empty or missing is skipped:
\* the empty name is not a key of the bone map, no bone has a nameless bone as its
\* parent, and no mesh is created on a nameless bone.
C15_UnnamedBoneExcluded ==
    /\ <<>> \notin DOMAIN bone_map
    /\ \A i \in 1..Len(scene) : scene[i].name # <<>>
    /\ \A i \in 1..Len(scene) : scene[i].parent # 0 => scene[scene[i].parent].name # <<>>
    /\ \A i \in 1..Len(meshes) : scene[meshes[i].parent].name # <<>>

(***************************************************************************)
(* C16: slots whose bone is not in the bone map                            *)
(***************************************************************************)
\* the bone name that create_meshes looks up for the slot
SlotBoneName(slot) == safe_str(variant, GetOrEmpty(slot.bone))

Unresolved(slot) == slot.object /\ SlotBoneName(slot) \notin DOMAIN bone_map

\* the record has the fields that spine_importer.py reads with slot[...]
SlotReadable(slot) == variant = "improved" \/ (slot.name # <<>> /\ slot.bone # <<>>)

NoSlotRaises == \A i \in 1..Len(slots_data) : ~SlotRaises(slots_data[i])

ResolvedSlots == SelectSeq(slots_data, LAMBDA s : ~Unresolved(s))

\* the planes of create_meshes on the slots, in order
RECURSIVE MeshesOf(_, _)
MeshesOf(st, slots) ==
    IF slots = <<>> THEN st.meshes
    ELSE MeshesOf(MeshStep(variant, bone_map, scene, textures, st, Head(slots)), Tail(slots))

\* create_meshes has returned and the animation has not yet moved any bone
MeshesDone == pc = "reset_timeline"

MissingImage(raw) == EndsWithPng(Strip(raw)) /\ Strip(raw) \notin files

PresentLines == SelectSeq(atlas, LAMBDA raw : ~MissingImage(raw))

\* the table of load_textures on the lines, in order
RECURSIVE TexturesOf(_, _)
TexturesOf(st, lines) ==
    IF lines = <<>> THEN st.textures
    ELSE TexturesOf(TextureStep(variant, files, st, Head(lines)), Tail(lines))

TexturesDone == pc = "create_bones"

\* C17: an image line whose file does not exist registers no region: its step
\* leaves the table and the current region as they were and appends one warning,
\* the next line is processed, and the table returned (hence the number of
\* textures that import_spine reports) is that of the atlas without the line.
C17_MissingImageNotRegistered ==
    /\ [](TexturesDone =>
            textures = TexturesOf([textures |-> EmptyMap, current_texture |-> <<>>,
                                   log |-> <<>>], PresentLines))
    /\ [][(pc = "textures_line" /\ MissingImage(atlas[idx])) =>
            /\ textures' = textures
            /\ current_texture' = current_texture
            /\ log' = Append(log, Warn("texture_not_found"))
            /\ pc' = IF idx = Len(atlas) THEN "create_bones" ELSE "textures_line"]_vars

C17_Witness ==
    /\ TexturesDone
    /\ atlas = <<PngA, PngB, <<" ", " ", "rotate", ":", " ", "90">>, PngA>>
    /\ files = {PngA}
    /\ MissingImage(atlas[2])
    /\ DOMAIN textures = {Stem(PngA)}
    /\ log \in {<<Warn("texture_not_found")>>,
                <<Warn("texture_not_found"), Info("texture_exists")>>}

(***************************************************************************)
(* C18: rotate lines whose value is not a float                            *)
(***************************************************************************)
\* a rotate line whose value float() rejects
BadRotate(raw) ==
    StartsWithRotate(Strip(raw)) /\ ~ParseFloat(AfterColon(Strip(raw))).ok

\* a region is current: current_texture is truthy
HasRegion == RotateTarget(current_texture) # <<>>

ParsedLines == SelectSeq(atlas, LAMBDA raw : ~BadRotate(raw))

\* nothing of the table is lost or changed by the lines with a bad rotate value
BadRotateHarmless ==
    TexturesDone =>
        textures = TexturesOf([textures |-> EmptyMap, current_texture |-> <<>>,
                               log |-> <<>>], ParsedLines)

\* C18: a rotate line whose value is not a valid float never aborts parsing: the
\* regions stay registered with their rotation unchanged, a warning is logged,
\* and every later line is still processed.
C18_BadRotateWarns ==
    /\ [](BadRotateHarmless)
    /\ [][(pc = "textures_line" /\ BadRotate(atlas[idx])) =>
            /\ textures' = textures
            /\ current_texture' = current_texture
            /\ log' = Append(log, Warn("rotate_unparsed"))
            /\ pc' = IF idx = Len(atlas) THEN "create_bones" ELSE "textures_line"]_vars

\* C18, amended: as above, with the warning logged when a region is current;
\* a rotate line that comes before any registered region is ignored without a
\* log entry.
C18_BadRotateWarnsForRegion ==
    /\ [](BadRotateHarmless)
    /\ [][(pc = "textures_line" /\ BadRotate(atlas[idx])) =>
            /\ textures' = textures
            /\ current_texture' = current_texture
            /\ log' = IF HasRegion THEN Append(log, Warn("rotate_unparsed")) ELSE log
            /\ pc' = IF idx = Len(atlas) THEN "create_bones" ELSE "textures_line"]_vars

C18_Witness ==
    /\ TexturesDone
    /\ atlas = TestAtlas
    /\ files = {PngA, PngB}
    /\ DOMAIN textures = {Stem(PngA), Stem(PngB)}
    /\ \A n \in DOMAIN textures : textures[n].rotation = <<>>
    /\ log = <<Warn("rotate_unparsed"), Warn("rotate_unparsed")>>

(***************************************************************************)
(* C19: the "import animation" checkbox                                    *)
(***************************************************************************)
\* C19: when the user has unchecked "import animation", an import performs no
\* animation baking: import_animation is not run, no keyframe is applied and the
\* playback range is not set from animation data.
C19_UncheckedSkipsAnimation ==
    /\ [](~chkAnim => pc \notin {"anim_length", "anim_bake"} /\ keys = <<>>)
    /\ [][(~chkAnim /\ pc \notin {"reset_timeline"}) =>
            animationRange' = animationRange]_vars

(***************************************************************************)
(* C20: safe_str of spine_importer.py                                      *)
(***************************************************************************)
Replaced(c) ==
    CASE c = "\\" -> "/"
      [] c = "\"" -> "'"
      [] c = "\n" -> " "
      [] OTHER -> c

\* str(value) with the three replacements made and the whitespace at both ends
\* removed
Sanitized(value) ==
    LET t == PyStr(value)
        u == [k \in 1..Len(t) |-> Replaced(t[k])]
        core == {k \in 1..Len(u) : u[k] \notin Whitespace}
        first == CHOOSE k \in core : \A j \in core : k <= j
        last == CHOOSE k \in core : \A j \in core : k >= j
    IN IF core = {} THEN <<>> ELSE SubSeq(u, first, last)

\* C20: safe_str of spine_importer.py returns the empty string for None and
\* otherwise str(value) with every backslash replaced by '/', every double quote
\* by a single quote, every newline by a space, and the whitespace at both ends
\* removed; its result holds no backslash, no double quote and no newline.
C20_SafeStrSanitizes ==
    (pc = "safe_str_done" /\ variant = "orig") =>
        /\ safe_str_ret[1] = IF safe_str_arg = None THEN <<>> ELSE Sanitized(safe_str_arg)
        /\ \A k \in 1..Len(safe_str_ret[1]) :
              safe_str_ret[1][k] \notin {"\\", "\"", "\n"}

C20_Witness ==
    /\ pc = "safe_str_done"
    /\ variant = "orig"
    /\ safe_str_arg = Str(<<"\\", "\n", "\"">>)
    /\ safe_str_ret = << <<"/", " ", "'">> >>

(***************************************************************************)
(* C21: the animation length and the padding                               *)
(***************************************************************************)
\* import_animation has returned
AnimationReturned == pc \in {"import_done", "returned"} /\ ~FatalInput

\* the document holds no keyframe in the animations that import_animation finds
NoKeyframes == AllFrames(FindAnimations(data)) = {}

\* C21: the animation length is never below the padding of 10 frames, and it is
\* exactly 10 whenever the document contains no keyframes, including when no
\* animation section is found.
C21_LengthIsPaddingWithoutKeyframes ==
    AnimationReturned =>
        /\ animationRange >= PaddingFrames
        /\ NoKeyframes => animationRange = PaddingFrames

(***************************************************************************)
(* C22: the timeline cursor                                                *)
(***************************************************************************)
\* C22: on every path that passes the input validation the timeline cursor is
\* at frame 0 when import_animation starts and again when import_spine returns,
\* also when keyframes were applied and a keyframe error was caught.
C22_CursorAtZero ==
    (~FatalInput /\ pc \in {"import_animation", "returned"}) => sliderTime = 0

(***************************************************************************)
(* C23: what the later steps change of the bones and textures              *)
(***************************************************************************)
InAnimation == pc \in {"import_animation", "anim_length", "anim_bake"}

InMeshes == pc \in {"create_meshes", "meshes_slot"}

\* C23: import_animation leaves the bone map as create_bones produced it (same
\* keys, same parent links, same positions and rotations of the bones), and
\* create_meshes changes neither the bone map nor the texture table.
C23_BonesReadOnly ==
    /\ [][InAnimation => bone_map' = bone_map /\ scene' = scene]_vars
    /\ [][InMeshes => bone_map' = bone_map /\ scene' = scene /\ textures' = textures]_vars

(***************************************************************************)
(* C24: the order of the steps of import_spine                             *)
(***************************************************************************)
\* the step of import_spine that pc is in: 1 load_textures, 2 create_bones,
\* 3 create_meshes, 4 the timeline reset and import_animation, 5 the return;
\* 0 before the input has been validated
StepNo ==
    CASE pc \in {"load_textures", "textures_line"} -> 1
      [] pc \in {"create_bones", "bones_pass1", "bones_pass2"} -> 2
      [] pc \in {"create_meshes", "meshes_slot"} -> 3
      [] pc \in {"reset_timeline", "import_animation", "anim_length", "anim_bake"} -> 4
      [] pc \in {"import_done", "returned"} -> 5
      [] OTHER -> 0

\* C24: on every import that passes the input validation the steps run once
\* each, in the order load textures, create bones, create meshes, import
\* animation, each finishing before the next starts, and no step that fails or
\* produces nothing keeps a later step from running.
C24_StepsInOrder ==
    /\ [][StepNo >= 1 => StepNo' \in {StepNo, StepNo + 1}]_vars
    /\ [][(StepNo = 0 /\ ~FatalInput) => StepNo' \in {0, 1}]_vars

(***************************************************************************)
(* C25: the region a rotate line applies to                                *)
(***************************************************************************)
IsRotateLine(i) == StartsWithRotate(Strip(atlas[i]))

\* the image lines before line i
ImagesBefore(i) == {j \in 1..(i - 1) : IsImageLine(j)}

\* the image line j registered a region when it was processed: its file exists
\* and (for the importer that skips loaded names) no earlier line loaded its name
RegisteredAt(j) ==
    /\ Strip(atlas[j]) \in files
    /\ \/ variant = "orig"
       \/ \A k \in ImagesBefore(j) :
             ~(Stem(Strip(atlas[k])) = Stem(Strip(atlas[j])) /\ Strip(atlas[k]) \in files)

\* the table after the rotate line i, were it applied to the region of the
\* nearest image line before it and only when that line registered a region
RotatedNearest(i) ==
    LET val == ParseFloat(AfterColon(Strip(atlas[i])))
        j == SetMax(ImagesBefore(i))
    IN IF ImagesBefore(i) # {} /\ RegisteredAt(j) /\ val.ok
       THEN [textures EXCEPT ![Stem(Strip(atlas[j]))].rotation = <<val.v>>]
       ELSE textures

\* C25: a rotate line sets the rotation of the region started by the nearest
\* image line before it, and of no other region; when that image line registered
\* no region (file missing, or name already loaded) it changes no rotation.
C25_RotateCurrentRegionOnly ==
    [][(pc = "textures_line" /\ IsRotateLine(idx)) => textures' = RotatedNearest(idx)]_vars

(***************************************************************************)
(* C26: scale tracks                                                       *)
(***************************************************************************)
\* the animations without their scale tracks
WithoutScale(anims) ==
    [c \in 1..Len(anims) |-> [e \in 1..Len(anims[c]) |-> [anims[c][e] EXCEPT !.scale = <<>>]]]

ScalePlaces(anims) == {p \in FramePlaces(anims) : p[3] = "scale"}

RECURSIVE BakeAll(_, _)
BakeAll(st, items) ==
    IF items = <<>> THEN st ELSE BakeAll(BakeStep(st, Head(items)), Tail(items))

\* the bones and the keys that the import loops leave for anims, on the bones as
\* create_bones made them
BakedOf(anims) ==
    BakeAll([scene |-> BuiltSkeleton[variant][bones_data].scene, keys |-> <<>>,
             sliderTime |-> 0, log |-> <<>>],
            BakeItems(variant, bone_map, anims))

\* import_animation has computed the length and ended its loops
BakeDone == LengthComputed /\ pc = "import_done"

\* C26: scale tracks are counted for the duration but never baked: the time of
\* every scale keyframe takes part in the maximum that gives the playback range,
\* while the keys applied and the bones are those of the same animations without
\* their scale tracks.
C26_ScaleCountedNotBaked ==
    BakeDone =>
        /\ \A p \in ScalePlaces(animations) :
              animationRange >= FloorOf(TimeOf(FrameAt(animations, p)) * FrameRate) + PaddingFrames
        /\ animationRange =
              FloorOf(SetMax({0} \cup Times(animations)) * FrameRate) + PaddingFrames
        /\ keys = BakedOf(WithoutScale(animations)).keys
        /\ scene = BakedOf(WithoutScale(animations)).scene
        /\ \A i \in 1..Len(keys) : keys[i].chan \in {"translate", "rotate"}

\* a scale keyframe of a bone of the map is later than every other keyframe and
\* sets the range, and only the translate keyframe of that bone was keyed
C26_Witness ==
    /\ BakeDone
    /\ Len(keys) = 1
    /\ \E p \in ScalePlaces(animations) :
          /\ safe_str(variant, <<animations[p[1]][p[2]].bone>>) \in DOMAIN bone_map
          /\ LatestFrame(animations, p)
          /\ TimeOf(FrameAt(animations, p)) > 0
          /\ animationRange = FloorOf(TimeOf(FrameAt(animations, p)) * FrameRate) + PaddingFrames
          /\ animationRange > PaddingFrames
          /\ Len(animations[p[1]][p[2]].translate) = 1

(***************************************************************************)
(* C27: the created bones and the bone map                                 *)
(***************************************************************************)
\* does the first loop of create_bones reach createBone for the record?
CreatesBone(rec) ==
    /\ IF variant = "orig" THEN rec.name # <<>> ELSE NormName(rec) # <<>>
    /\ FloatOf(rec.x, 0).ok /\ FloatOf(rec.y, 0).ok /\ FloatOf(rec.length, Den).ok

\* the record from which the i-th bone object of the scene was created
RecordOf(i) ==
    CHOOSE j \in 1..Len(bones_data) :
        /\ CreatesBone(bones_data[j])
        /\ Cardinality({k \in 1..j : CreatesBone(bones_data[k])}) = i

\* the keys under which the bone object i is the value of the bone map
KeysOf(i) == {n \in DOMAIN bone_map : bone_map[n] = i}

CreatedCountIsMapSize == Len(scene) = Cardinality(DOMAIN bone_map)

CreatedUnderOwnName == \A i \in 1..Len(scene) : KeysOf(i) = {scene[i].name}

CreatedWithOwnParent ==
    \A i \in 1..Len(scene) :
        LET rec == bones_data[RecordOf(i)]
        IN /\ rec.parent = <<>> => scene[i].parent = 0
           /\ (rec.parent # <<>> /\ NormParent(rec) \in DOMAIN bone_map)
                  => scene[i].parent = bone_map[NormParent(rec)]

\* C27: after create_bones, every bone object created in the scene is the value
\* of exactly one entry of the bone map, under its name, and has the parent that
\* its own record declares; the number of bones created is the size of the map,
\* also when several records share a name.
C27_CreatedBonesAreMapEntries ==
    AfterCreateBones =>
        /\ CreatedCountIsMapSize
        /\ CreatedUnderOwnName
        /\ CreatedWithOwnParent

=============================================================================
